---- MODULE Spec2Model ----
(***************************************************************************)
(* Model of src/script2.py: the beach parking status monitor.              *)
(*                                                                         *)
(* One run of the process is modelled: main() reads the flags, calls       *)
(* scrape_parking_status() (one HTTP GET, then a loop over the PLA_linia   *)
(* containers), optionally persists through setup_supabase() and           *)
(* save_to_supabase(), optionally prints JSON, optionally appends the      *)
(* GitHub Actions summary, and exits.                                      *)
(*                                                                         *)
(* External inputs are nondeterministic: the command line (chosen in       *)
(* Init), the HTTP response (chosen at the GET), the wall clock (Tick),    *)
(* the environment variables (each is read at most once in a run, so its   *)
(* value is chosen where the code reads it and recorded in environ), the   *)
(* outcome of create_client, the outcome of the bulk insert and whether    *)
(* the summary file can be opened.                                         *)
(***************************************************************************)
EXTENDS Integers, Sequences, FiniteSets

\* Bounds of the model.
MaxContainers == 2      \* PLA_linia divs on a fetched page
MaxClock == 2           \* ticks of the wall clock during one run

VARIABLES
    argv,               \* sys.argv flags of the run
    pc,                 \* position of the process
    save_to_db,         \* main: '--no-db' not in sys.argv
    output_json,        \* main: '--json' in sys.argv
    now,                \* the wall clock
    httpGets,           \* number of requests.get calls made
    fetchOutcome,       \* how the GET ended
    page,               \* soup.find_all('div', class_='PLA_linia') of the response
    current_datetime,   \* scrape_parking_status: the batch timestamp
    i,                  \* scrape_parking_status: loop index (1-based)
    parking_data,       \* the list being built, then main's parking_data
    warnings,           \* indexes of the containers logged as skipped
    environ,            \* environment variables as read so far
    createOk,           \* whether create_client returned a client
    setupCalls,         \* number of setup_supabase calls
    insertLog,          \* arguments of the insert calls made, in order
    backend,            \* outcome of the insert call
    success,            \* main: result of save_to_supabase
    stdout,             \* JSON documents printed
    summaryFile,        \* summaries appended to $GITHUB_STEP_SUMMARY
    exitCode,           \* exit status of the process, -1 while running
    crashed,            \* the process ended on an uncaught exception
    phases              \* driver phases entered, in order

vars == <<argv, pc, save_to_db, output_json, now, httpGets, fetchOutcome, page,
          current_datetime, i, parking_data, warnings, environ, createOk,
          setupCalls, insertLog, backend, success, stdout, summaryFile,
          exitCode, crashed, phases>>

----------------------------------------------------------------------------
\* Values

Flags == {"--no-db", "--json"}

\* An environment variable is unset, set to the empty string, or set to a value.
Unset == "unset"
EnvValues == {Unset, "", "value"}
Unread == "unread"
EnvNames == {"SUPABASE_URL", "SUPABASE_KEY", "GITHUB_ACTIONS", "GITHUB_STEP_SUMMARY"}

\* Python truthiness of os.getenv(name): None and '' are falsy.
Truthy(v) == v # Unset /\ v # ""

Whitespace == {" "}

\* Element ids are sequences of tokens; 'tok' in x is contiguous containment.
NoId == <<>>
NameId == <<"ctl00_", "Content1_", "Label", "1">>
StatusId == <<"ctl00_", "Content1_", "lb", "Estat">>
LbLabelId == <<"ctl00_", "Content1_", "lb", "Label">>

NameSpan(t) == [id |-> NameId, text |-> t]
StatusSpan(t) == [id |-> StatusId, text |-> t]
LbLabelSpan(t) == [id |-> LbLabelId, text |-> t]
PlainSpan(t) == [id |-> NoId, text |-> t]

\* The containers a page is built from: spans in document order.
Containers ==
    { << NameSpan(<<" ", "A", " ">>), StatusSpan(<<"o">>) >>,
      << NameSpan(<<"A">>) >>,
      << StatusSpan(<<"o">>) >>,
      << NameSpan(<<" ">>), StatusSpan(<<"o">>) >>,
      << NameSpan(<<"A">>), StatusSpan(<<>>) >>,
      << NameSpan(<<"A">>), LbLabelSpan(<<"o">>) >>,
      << PlainSpan(<<"x">>), StatusSpan(<<" ", "t">>), NameSpan(<<"B">>), NameSpan(<<"A">>) >> }

Pages == UNION { [1..n -> Containers] : n \in 0..MaxContainers }

FetchFailures == {"ConnectionError", "HTTPError", "Timeout"}

----------------------------------------------------------------------------
\* Helpers of scrape_parking_status

\* sub in s, for sequences of tokens
Contains(sub, s) ==
    \E k \in 0..(Len(s) - Len(sub)) : SubSeq(s, k + 1, k + Len(sub)) = sub

\* lambda x: x and 'Content1_Label' in x
IsBeachId(x) == x # NoId /\ Contains(<<"Content1_", "Label">>, x)

\* lambda x: x and 'Content1_lb' in x and 'Label' not in x
IsStatusId(x) ==
    x # NoId /\ Contains(<<"Content1_", "lb">>, x) /\ ~Contains(<<"Label">>, x)

\* The first span of div (document order) whose id is in hits, 0 for None
first_match(div, hits) ==
    IF hits = {} THEN 0 ELSE CHOOSE k \in hits : \A m \in hits : k <= m

\* div.find('span', id=lambda x: x and 'Content1_Label' in x)
find_beach_label(div) ==
    first_match(div, {k \in 1..Len(div) : IsBeachId(div[k].id)})

\* div.find('span', id=lambda x: x and 'Content1_lb' in x and 'Label' not in x)
find_status_label(div) ==
    first_match(div, {k \in 1..Len(div) : IsStatusId(div[k].id)})

RECURSIVE lstrip(_)
lstrip(s) == IF s # <<>> /\ Head(s) \in Whitespace THEN lstrip(Tail(s)) ELSE s

RECURSIVE rstrip(_)
rstrip(s) ==
    IF s # <<>> /\ s[Len(s)] \in Whitespace THEN rstrip(SubSeq(s, 1, Len(s) - 1)) ELSE s

\* tag.get_text(strip=True) of a span holding one string
get_text(span) == rstrip(lstrip(span.text))

----------------------------------------------------------------------------
\* Helpers of the persistence functions

\* setup_supabase: the client, or None
setup_supabase(url, key, created) ==
    IF ~Truthy(url) \/ ~Truthy(key) THEN "None"
    ELSE IF created THEN "Client" ELSE "None"

\* save_to_supabase: the rows built from parking_data
db_records(data) ==
    [j \in 1..Len(data) |->
        [recorded_at |-> data[j].Date,
         beach_name |-> data[j].Beach,
         status |-> data[j].Status]]

\* What supabase.table(..).insert(rows).execute() can do: raise, or return
\* result.data holding the rows of parking_status it wrote (possibly none).
BackendOutcomes(rows) ==
    {[raised |-> TRUE, data |-> <<>>]} \cup
    {[raised |-> FALSE, data |-> SubSeq(rows, 1, k)] : k \in 0..Len(rows)}

\* Mutant of save_result: any insert that does not raise counts as saved.
save_result_unchecked(outcome) == ~outcome.raised

\* save_to_supabase: the value returned, given the outcome of the insert
save_result(outcome) ==
    IF outcome.raised THEN FALSE ELSE outcome.data # <<>>

NoBackend == [raised |-> FALSE, data |-> <<>>]

----------------------------------------------------------------------------
Init ==
    /\ argv \in SUBSET Flags
    /\ pc = "main"
    /\ save_to_db = TRUE
    /\ output_json = FALSE
    /\ now = 0
    /\ httpGets = 0
    /\ fetchOutcome = "none"
    /\ page = <<>>
    /\ current_datetime = 0
    /\ i = 1
    /\ parking_data = <<>>
    /\ warnings = <<>>
    /\ environ = [n \in EnvNames |-> Unread]
    /\ createOk = FALSE
    /\ setupCalls = 0
    /\ insertLog = <<>>
    /\ backend = NoBackend
    /\ success = "none"
    /\ stdout = <<>>
    /\ summaryFile = <<>>
    /\ exitCode = -1
    /\ crashed = FALSE
    /\ phases = <<>>

\* The wall clock advances at any time while the process runs.
Tick ==
    /\ pc # "done"
    /\ now < MaxClock
    /\ now' = now + 1
    /\ UNCHANGED <<argv, pc, save_to_db, output_json, httpGets, fetchOutcome, page,
                   current_datetime, i, parking_data, warnings, environ, createOk,
                   setupCalls, insertLog, backend, success, stdout, summaryFile,
                   exitCode, crashed, phases>>

\* sys.exit(code), or the end of main (code 0)
Exit(code) ==
    /\ pc' = "done"
    /\ exitCode' = code

\* main, lines 155-164: read the flags and call scrape_parking_status
main_start ==
    /\ pc = "main"
    /\ save_to_db' = ("--no-db" \notin argv)
    /\ output_json' = ("--json" \in argv)
    /\ pc' = "get"
    /\ UNCHANGED <<argv, now, httpGets, fetchOutcome, page, current_datetime, i,
                   parking_data, warnings, environ, createOk, setupCalls, insertLog,
                   backend, success, stdout, summaryFile, exitCode, crashed, phases>>

\* Mutant of scrape_get: a failed GET is tried once more.
scrape_get_retry ==
    /\ pc = "get"
    /\ httpGets' = httpGets + 1
    /\ phases' = Append(phases, "Fetch")
    /\ \/ \E f \in FetchFailures :
             /\ fetchOutcome' = f
             /\ parking_data' = <<>>
             /\ pc' = IF httpGets = 0 THEN "get" ELSE "returned"
             /\ page' = page
       \/ \E p \in Pages :
             /\ fetchOutcome' = "ok"
             /\ page' = p
             /\ pc' = "find"
             /\ parking_data' = parking_data
    /\ UNCHANGED <<argv, save_to_db, output_json, now, current_datetime, i, warnings,
                   environ, createOk, setupCalls, insertLog, backend, success, stdout,
                   summaryFile, exitCode, crashed>>

\* scrape_parking_status, lines 93-103 and 144-146: the GET. A transport
\* error, a non-2xx status (raise_for_status) or a timeout is caught by the
\* RequestException handler, which returns [].
scrape_get ==
    /\ pc = "get"
    /\ httpGets' = httpGets + 1
    /\ phases' = Append(phases, "Fetch")
    /\ \/ \E f \in FetchFailures :
             /\ fetchOutcome' = f
             /\ parking_data' = <<>>
             /\ pc' = "returned"
             /\ page' = page
       \/ \E p \in Pages :
             /\ fetchOutcome' = "ok"
             /\ page' = p
             /\ pc' = "find"
             /\ parking_data' = parking_data
    /\ UNCHANGED <<argv, save_to_db, output_json, now, current_datetime, i, warnings,
                   environ, createOk, setupCalls, insertLog, backend, success, stdout,
                   summaryFile, exitCode, crashed>>

\* scrape_parking_status, lines 106-117: no containers returns []; otherwise
\* the timestamp is taken and the list started.
scrape_find ==
    /\ pc = "find"
    /\ phases' = Append(phases, "Extract")
    /\ IF page = <<>>
       THEN /\ parking_data' = <<>>
            /\ pc' = "returned"
            /\ UNCHANGED <<current_datetime, i>>
       ELSE /\ current_datetime' = now
            /\ parking_data' = <<>>
            /\ i' = 1
            /\ pc' = "loop"
    /\ UNCHANGED <<argv, save_to_db, output_json, now, httpGets, fetchOutcome, page,
                   warnings, environ, createOk, setupCalls, insertLog, backend,
                   success, stdout, summaryFile, exitCode, crashed>>

\* Mutant of scrape_div: a container lacking a label ends the loop.
scrape_div_break ==
    /\ pc = "loop"
    /\ i <= Len(page)
    /\ LET div == page[i]
           beach_label == find_beach_label(div)
           status_label == find_status_label(div)
       IN IF beach_label # 0 /\ status_label # 0
          THEN /\ parking_data' = Append(parking_data,
                      [Date |-> current_datetime,
                       Beach |-> get_text(div[beach_label]),
                       Status |-> get_text(div[status_label])])
               /\ warnings' = warnings
               /\ i' = i + 1
          ELSE /\ warnings' = Append(warnings, i)
               /\ parking_data' = parking_data
               /\ i' = Len(page) + 1
    /\ UNCHANGED <<argv, pc, save_to_db, output_json, now, httpGets, fetchOutcome,
                   page, current_datetime, environ, createOk, setupCalls, insertLog,
                   backend, success, stdout, summaryFile, exitCode, crashed, phases>>

\* Mutant of scrape_div: each record is stamped when it is built.
scrape_div_stamp_each ==
    /\ pc = "loop"
    /\ i <= Len(page)
    /\ LET div == page[i]
           beach_label == find_beach_label(div)
           status_label == find_status_label(div)
       IN IF beach_label # 0 /\ status_label # 0
          THEN /\ parking_data' = Append(parking_data,
                      [Date |-> now,
                       Beach |-> get_text(div[beach_label]),
                       Status |-> get_text(div[status_label])])
               /\ warnings' = warnings
          ELSE /\ warnings' = Append(warnings, i)
               /\ parking_data' = parking_data
    /\ i' = i + 1
    /\ UNCHANGED <<argv, pc, save_to_db, output_json, now, httpGets, fetchOutcome,
                   page, current_datetime, environ, createOk, setupCalls, insertLog,
                   backend, success, stdout, summaryFile, exitCode, crashed, phases>>

\* scrape_parking_status, lines 119-139: one iteration of the loop
scrape_div ==
    /\ pc = "loop"
    /\ i <= Len(page)
    /\ LET div == page[i]
           beach_label == find_beach_label(div)
           status_label == find_status_label(div)
       IN IF beach_label # 0 /\ status_label # 0
          THEN /\ parking_data' = Append(parking_data,
                      [Date |-> current_datetime,
                       Beach |-> get_text(div[beach_label]),
                       Status |-> get_text(div[status_label])])
               /\ warnings' = warnings
          ELSE /\ warnings' = Append(warnings, i)
               /\ parking_data' = parking_data
    /\ i' = i + 1
    /\ UNCHANGED <<argv, pc, save_to_db, output_json, now, httpGets, fetchOutcome,
                   page, current_datetime, environ, createOk, setupCalls, insertLog,
                   backend, success, stdout, summaryFile, exitCode, crashed, phases>>

\* scrape_parking_status, lines 141-142: the loop is over, return the list
scrape_return ==
    /\ pc = "loop"
    /\ i > Len(page)
    /\ pc' = "returned"
    /\ UNCHANGED <<argv, save_to_db, output_json, now, httpGets, fetchOutcome, page,
                   current_datetime, i, parking_data, warnings, environ, createOk,
                   setupCalls, insertLog, backend, success, stdout, summaryFile,
                   exitCode, crashed, phases>>

\* Mutant of main_check: only a failed fetch is fatal, an empty extraction
\* goes on.
main_check_empty_ok ==
    /\ pc = "returned"
    /\ IF parking_data = <<>> /\ fetchOutcome # "ok"
       THEN Exit(1) /\ phases' = Append(phases, "Terminal")
       ELSE /\ pc' = IF save_to_db THEN "setup" ELSE "emit"
            /\ UNCHANGED <<exitCode, phases>>
    /\ UNCHANGED <<argv, save_to_db, output_json, now, httpGets, fetchOutcome, page,
                   current_datetime, i, parking_data, warnings, environ, createOk,
                   setupCalls, insertLog, backend, success, stdout, summaryFile,
                   crashed>>

\* main, lines 166-171: no records is fatal; otherwise persist if requested
main_check ==
    /\ pc = "returned"
    /\ IF parking_data = <<>>
       THEN Exit(1) /\ phases' = Append(phases, "Terminal")
       ELSE /\ pc' = IF save_to_db THEN "setup" ELSE "emit"
            /\ UNCHANGED <<exitCode, phases>>
    /\ UNCHANGED <<argv, save_to_db, output_json, now, httpGets, fetchOutcome, page,
                   current_datetime, i, parking_data, warnings, environ, createOk,
                   setupCalls, insertLog, backend, success, stdout, summaryFile,
                   crashed>>

\* Mutant of main_setup: without a client the save is skipped and the run
\* goes on.
main_setup_skip ==
    /\ pc = "setup"
    /\ setupCalls' = setupCalls + 1
    /\ \E url \in EnvValues, key \in EnvValues :
         \E created \in (IF Truthy(url) /\ Truthy(key) THEN BOOLEAN ELSE {FALSE}) :
           /\ environ' = [environ EXCEPT !["SUPABASE_URL"] = url,
                                         !["SUPABASE_KEY"] = key]
           /\ createOk' = created
           /\ pc' = IF setup_supabase(url, key, created) = "None" THEN "emit" ELSE "save"
           /\ phases' = Append(phases, "Persist")
           /\ UNCHANGED exitCode
    /\ UNCHANGED <<argv, save_to_db, output_json, now, httpGets, fetchOutcome, page,
                   current_datetime, i, parking_data, warnings, insertLog, backend,
                   success, stdout, summaryFile, crashed>>

\* main, lines 171-173 and 178-180, with setup_supabase, lines 32-49: both
\* credentials are read, the client is created, and no client is fatal.
main_setup ==
    /\ pc = "setup"
    /\ setupCalls' = setupCalls + 1
    /\ \E url \in EnvValues, key \in EnvValues :
         \E created \in (IF Truthy(url) /\ Truthy(key) THEN BOOLEAN ELSE {FALSE}) :
           /\ environ' = [environ EXCEPT !["SUPABASE_URL"] = url,
                                         !["SUPABASE_KEY"] = key]
           /\ createOk' = created
           /\ IF setup_supabase(url, key, created) = "None"
              THEN Exit(1) /\ phases' = phases \o <<"Persist", "Terminal">>
              ELSE /\ pc' = "save"
                   /\ phases' = Append(phases, "Persist")
                   /\ UNCHANGED exitCode
    /\ UNCHANGED <<argv, save_to_db, output_json, now, httpGets, fetchOutcome, page,
                   current_datetime, i, parking_data, warnings, insertLog, backend,
                   success, stdout, summaryFile, crashed>>

\* Mutant of main_save: the result of save_to_supabase is not checked.
main_save_unchecked ==
    /\ pc = "save"
    /\ LET rows == db_records(parking_data)
       IN \E outcome \in BackendOutcomes(rows) :
            /\ insertLog' = Append(insertLog, rows)
            /\ backend' = outcome
            /\ success' = IF save_result(outcome) THEN "True" ELSE "False"
            /\ pc' = "emit"
            /\ UNCHANGED <<exitCode, phases>>
    /\ UNCHANGED <<argv, save_to_db, output_json, now, httpGets, fetchOutcome, page,
                   current_datetime, i, parking_data, warnings, environ, createOk,
                   setupCalls, stdout, summaryFile, crashed>>

\* main, lines 174-177, with save_to_supabase, lines 51-85: the rows are
\* built, inserted in one call, and a false result is fatal.
main_save ==
    /\ pc = "save"
    /\ LET rows == db_records(parking_data)
       IN \E outcome \in BackendOutcomes(rows) :
            /\ insertLog' = Append(insertLog, rows)
            /\ backend' = outcome
            /\ success' = IF save_result(outcome) THEN "True" ELSE "False"
            /\ IF save_result(outcome)
               THEN pc' = "emit" /\ UNCHANGED <<exitCode, phases>>
               ELSE Exit(1) /\ phases' = Append(phases, "Terminal")
    /\ UNCHANGED <<argv, save_to_db, output_json, now, httpGets, fetchOutcome, page,
                   current_datetime, i, parking_data, warnings, environ, createOk,
                   setupCalls, stdout, summaryFile, crashed>>

\* json.dumps(parking_data, ...): an array of objects, each its key/value
\* pairs in insertion order
json_dumps(data) ==
    [j \in 1..Len(data) |->
        << <<"Date", data[j].Date>>,
           <<"Beach", data[j].Beach>>,
           <<"Status", data[j].Status>> >>]

\* Mutant of main_emit: the JSON is printed only when --json is given.
main_emit_json_only ==
    /\ pc = "emit"
    /\ phases' = Append(phases, "Emit")
    /\ stdout' = IF output_json
                 THEN Append(stdout, json_dumps(parking_data))
                 ELSE stdout
    /\ pc' = "summary"
    /\ UNCHANGED <<argv, save_to_db, output_json, now, httpGets, fetchOutcome, page,
                   current_datetime, i, parking_data, warnings, environ, createOk,
                   setupCalls, insertLog, backend, success, summaryFile, exitCode,
                   crashed>>

\* main, lines 183-186: print the JSON if requested or if not saving
main_emit ==
    /\ pc = "emit"
    /\ phases' = Append(phases, "Emit")
    /\ stdout' = IF output_json \/ ~save_to_db
                 THEN Append(stdout, json_dumps(parking_data))
                 ELSE stdout
    /\ pc' = "summary"
    /\ UNCHANGED <<argv, save_to_db, output_json, now, httpGets, fetchOutcome, page,
                   current_datetime, i, parking_data, warnings, environ, createOk,
                   setupCalls, insertLog, backend, success, summaryFile, exitCode,
                   crashed>>

\* main, lines 192-202: the summary text
summary_text(data) ==
    [processed |-> Len(data),
     monitored |-> [j \in 1..Len(data) |-> data[j].Beach],
     status |-> [j \in 1..Len(data) |-> <<data[j].Beach, data[j].Status>>]]

\* main, lines 191-205 and the end of main: under GITHUB_ACTIONS the summary
\* is appended to the file os.environ['GITHUB_STEP_SUMMARY'] names. An unset
\* variable raises KeyError and a file that cannot be opened raises OSError;
\* neither is caught, so the process ends with status 1.
main_summary ==
    /\ pc = "summary"
    /\ \E gha \in EnvValues :
         IF ~Truthy(gha)
         THEN /\ environ' = [environ EXCEPT !["GITHUB_ACTIONS"] = gha]
              /\ Exit(0)
              /\ phases' = Append(phases, "Terminal")
              /\ UNCHANGED <<summaryFile, crashed>>
         ELSE \E path \in EnvValues :
                \E opens \in (IF Truthy(path) THEN BOOLEAN ELSE {FALSE}) :
                  /\ environ' = [environ EXCEPT !["GITHUB_ACTIONS"] = gha,
                                                !["GITHUB_STEP_SUMMARY"] = path]
                  /\ phases' = phases \o <<"Summary", "Terminal">>
                  /\ IF path = Unset \/ ~opens
                     THEN /\ crashed' = TRUE
                          /\ Exit(1)
                          /\ UNCHANGED summaryFile
                     ELSE /\ summaryFile' = Append(summaryFile, summary_text(parking_data))
                          /\ Exit(0)
                          /\ UNCHANGED crashed
    /\ UNCHANGED <<argv, save_to_db, output_json, now, httpGets, fetchOutcome, page,
                   current_datetime, i, parking_data, warnings, createOk, setupCalls,
                   insertLog, backend, success, stdout>>

Next ==
    \/ Tick
    \/ main_start
    \/ scrape_get
    \/ scrape_find
    \/ scrape_div
    \/ scrape_return
    \/ main_check
    \/ main_setup
    \/ main_save
    \/ main_emit
    \/ main_summary

Spec == Init /\ [][Next]_vars

\* The process is single-threaded and every call it makes returns (the GET
\* has a timeout, the loop is over a finite list), so a step of the program
\* that can be taken is taken. The clock is under no obligation to advance.
Program ==
    \/ main_start
    \/ scrape_get
    \/ scrape_find
    \/ scrape_div
    \/ scrape_return
    \/ main_check
    \/ main_setup
    \/ main_save
    \/ main_emit
    \/ main_summary

FairSpec == Spec /\ WF_vars(Program)

----------------------------------------------------------------------------
\* Properties

Done == pc = "done"

\* scrape_parking_status has returned to main
Returned == pc \in {"returned", "setup", "save", "emit", "summary", "done"}

NoDb == "--no-db" \in argv
Json == "--json" \in argv

Entered(phase) == \E k \in 1..Len(phases) : phases[k] = phase

\* setup_supabase was called and had no client to return
NoClient ==
    /\ setupCalls > 0
    /\ \/ ~Truthy(environ["SUPABASE_URL"])
       \/ ~Truthy(environ["SUPABASE_KEY"])
       \/ ~createOk

\* A container holding both a name-label span and a status-value span
Qualifies(div) ==
    /\ \E k \in 1..Len(div) : IsBeachId(div[k].id)
    /\ \E k \in 1..Len(div) : IsStatusId(div[k].id)

\* C1: a finished run has exit status 1 when (a) the scrape returned no
\* records, and then setup_supabase and the insert were never called; (b)
\* persistence was requested and setup_supabase had no client (a credential
\* missing or empty, or create_client failed), and then the insert was never
\* called; (c) save_to_supabase returned false.
C1_FailureExitsOne ==
    Done =>
        /\ parking_data = <<>> =>
              exitCode = 1 /\ setupCalls = 0 /\ insertLog = <<>> /\ success = "none"
        /\ (~NoDb /\ NoClient) =>
              exitCode = 1 /\ insertLog = <<>> /\ success = "none"
        /\ success = "False" => exitCode = 1

C1_Witness ==
    /\ Done
    /\ ~NoDb
    /\ Json
    /\ parking_data # <<>>
    /\ environ["SUPABASE_URL"] = "value"
    /\ environ["SUPABASE_KEY"] = Unset
    /\ exitCode = 1

\* C2: a finished run that extracted at least one record and whose
\* persistence succeeded or was skipped has exit status 0, in every
\* environment.
C2_SuccessExitsZero ==
    (Done /\ parking_data # <<>> /\ (NoDb \/ success = "True")) => exitCode = 0

\* C3: with --no-db no persistence operation is performed and no credential
\* is read, and a finished run with at least one record has printed the JSON
\* array of the records; once the emit step is reached, JSON has been
\* printed exactly when --json or --no-db was given.
C3_NoDbAndEmission ==
    /\ NoDb =>
          /\ setupCalls = 0
          /\ insertLog = <<>>
          /\ success = "none"
          /\ environ["SUPABASE_URL"] = Unread
          /\ environ["SUPABASE_KEY"] = Unread
    /\ (NoDb /\ Done /\ parking_data # <<>>) =>
          /\ Len(stdout) = 1
          /\ Len(stdout[1]) = Len(parking_data)
          /\ \A j \in 1..Len(parking_data) :
                stdout[1][j] = << <<"Date", parking_data[j].Date>>,
                                  <<"Beach", parking_data[j].Beach>>,
                                  <<"Status", parking_data[j].Status>> >>
    /\ Entered("Emit") => ((stdout # <<>>) <=> (Json \/ NoDb))
    /\ ~Entered("Emit") => stdout = <<>>

C3_Witness ==
    /\ Done
    /\ argv = {"--no-db"}
    /\ Len(parking_data) = 2
    /\ stdout # <<>>
    /\ exitCode = 0

\* C4: after a successful fetch of a page with N containers of which M hold
\* both labels, the scrape returns M records, the j-th built from the j-th
\* qualifying container, and the N - M others are skipped with a warning
\* each without ending the loop.
C4_OneRecordPerQualifying ==
    (Returned /\ fetchOutcome = "ok") =>
        LET q == SelectSeq(page, Qualifies)
        IN /\ Len(parking_data) = Len(q)
           /\ Len(warnings) = Len(page) - Len(q)
           /\ \A j \in 1..Len(q) :
                /\ \E k \in 1..Len(q[j]) :
                     /\ IsBeachId(q[j][k].id)
                     /\ parking_data[j].Beach = get_text(q[j][k])
                /\ \E k \in 1..Len(q[j]) :
                     /\ IsStatusId(q[j][k].id)
                     /\ parking_data[j].Status = get_text(q[j][k])

C4_Witness ==
    /\ Returned
    /\ fetchOutcome = "ok"
    /\ Len(page) = 2
    /\ ~Qualifies(page[1])
    /\ Qualifies(page[2])
    /\ Len(parking_data) = 1
    /\ warnings = <<1>>

\* C5: every record the scrape has built has a non-empty Beach and a
\* non-empty Status after trimming.
C5_NonEmptyFields ==
    \A j \in 1..Len(parking_data) :
        parking_data[j].Beach # <<>> /\ parking_data[j].Status # <<>>

\* C6: save_to_supabase makes exactly one insert call, with one row per
\* record in order (Date to recorded_at, Beach to beach_name, Status to
\* status); it returns true exactly when the call did not raise and
\* confirmed at least one row, false otherwise, and no exception reaches
\* the driver.
C6_SaveContract ==
    /\ Len(insertLog) <= 1
    /\ success = "none" <=> insertLog = <<>>
    /\ success # "none" =>
          /\ Len(insertLog[1]) = Len(parking_data)
          /\ \A j \in 1..Len(parking_data) :
                /\ insertLog[1][j].recorded_at = parking_data[j].Date
                /\ insertLog[1][j].beach_name = parking_data[j].Beach
                /\ insertLog[1][j].status = parking_data[j].Status
          /\ success = "True" <=> (~backend.raised /\ Len(backend.data) >= 1)
          /\ success = "False" <=> (backend.raised \/ Len(backend.data) = 0)
          /\ success = "False" => ~crashed

C6_Witness ==
    /\ success = "False"
    /\ ~backend.raised
    /\ backend.data = <<>>
    /\ Len(insertLog) = 1
    /\ Len(insertLog[1]) = 2

\* C7 as claimed: after a failed fetch the driver receives a value other
\* than the empty list it receives after an empty extraction.
C7_FailureDistinctFromEmpty ==
    (Returned /\ fetchOutcome \in FetchFailures) => parking_data # <<>>

\* C7 as amended: the driver receives the same empty list after a failed
\* fetch as after a successful fetch with no container or no paired record,
\* and the run ends with exit status 1 and no persistence in both cases.
C7_FailureSameAsEmpty ==
    /\ (Returned /\ fetchOutcome \in FetchFailures) => parking_data = <<>>
    /\ (Returned /\ fetchOutcome = "ok" /\ SelectSeq(page, Qualifies) = <<>>) =>
          parking_data = <<>>
    /\ (Returned /\ parking_data = <<>> /\ pc # "returned") =>
          Done /\ exitCode = 1 /\ setupCalls = 0 /\ stdout = <<>>

C7_Witness ==
    /\ Done
    /\ fetchOutcome = "ok"
    /\ Len(page) = 2
    /\ parking_data = <<>>
    /\ exitCode = 1

\* C8: all records of a run carry the timestamp taken once before the loop,
\* and so does every row of the bulk insert.
C8_SharedTimestamp ==
    /\ \A j \in 1..Len(parking_data) : parking_data[j].Date = current_datetime
    /\ \A c \in 1..Len(insertLog) : \A j \in 1..Len(insertLog[c]) :
          insertLog[c][j].recorded_at = current_datetime

C8_Witness ==
    /\ Len(insertLog) = 1
    /\ Len(insertLog[1]) = 2
    /\ current_datetime = 1
    /\ now > current_datetime

PhaseRank(phase) ==
    CASE phase = "Fetch" -> 1
      [] phase = "Extract" -> 2
      [] phase = "Persist" -> 3
      [] phase = "Emit" -> 4
      [] phase = "Summary" -> 5
      [] phase = "Terminal" -> 6

PhasesInOrder ==
    \A j \in 1..Len(phases), k \in 1..Len(phases) :
        j < k => PhaseRank(phases[j]) < PhaseRank(phases[k])

\* C9: the phases a run enters are each entered at most once, in the order
\* Fetch, Extract, Persist, Emit, Summary, terminal; there is at most one
\* GET and at most one insert call; and the run reaches a terminal state.
C9_LinearOnceAndTerminates ==
    /\ [](PhasesInOrder /\ httpGets <= 1 /\ Len(insertLog) <= 1)
    /\ <>Done

C9_Witness ==
    /\ Done
    /\ phases = <<"Fetch", "Extract", "Persist", "Emit", "Summary", "Terminal">>
    /\ httpGets = 1
    /\ Len(insertLog) = 1

\* C10: JSON is printed and the summary written only when persistence was
\* skipped or save_to_supabase returned true; a finished run that requested
\* persistence and did not get a true result has printed nothing, written
\* no summary, and has exit status 1.
C10_NoOutputAfterFailure ==
    /\ stdout # <<>> => (NoDb \/ success = "True")
    /\ summaryFile # <<>> => (NoDb \/ success = "True")
    /\ (Done /\ ~NoDb /\ success # "True") =>
          exitCode = 1 /\ stdout = <<>> /\ summaryFile = <<>>

C10_Witness ==
    /\ Done
    /\ argv = {"--json"}
    /\ success = "False"
    /\ stdout = <<>>
    /\ summaryFile = <<>>
    /\ exitCode = 1

====
